---- MODULE Spec2Model ----
(***************************************************************************)
(* Model of Scripts/getPackages.py: the script that restores the NuGet     *)
(* packages into a temporary directory and stages the netstandard2.0 DLLs  *)
(* into the 'Plugins' directory next to the script.                        *)
(*                                                                         *)
(* The script is one sequential process.  Its statements are the actions   *)
(* below, pc names the statement that runs next.  The file system is the   *)
(* state: the temporary directory (temp), the output path (out) and what   *)
(* the restore tool delivers for packages.config (feed).  A second run of  *)
(* the script (Rerun) starts a fresh process on the file system the        *)
(* previous run left behind.                                               *)
(***************************************************************************)
EXTENDS Integers, Sequences, FiniteSets, TLC

VARIABLES
    pc,                 \* the statement that runs next, or "End" / "Error"
    run,                \* number of the current run of the script
    feed,               \* files the restore tool delivers (relative paths)
    temp,               \* temp_directory: [exists, files]
    out,                \* plugins_output_path: [kind, entries]
    nuget_return_code,  \* returncode of subprocess.run
    filepaths,          \* list(Path(...).glob(...))
    idx,                \* position of the for loop in filepaths
    error,              \* the exception that ended the run, "none" if none
    steps,              \* statements executed so far in this run
    out0,               \* the output path as it was when this run started
    prevRc              \* nuget_return_code of the previous run

vars == <<pc, run, feed, temp, out, nuget_return_code, filepaths, idx, error,
          steps, out0, prevRc>>

(***************************************************************************)
(* Program constants                                                       *)
(***************************************************************************)
EXPECTED_PLUGIN_COUNT == 8

(***************************************************************************)
(* Bounds of the model                                                     *)
(***************************************************************************)
\* pkgA delivers the DLLs 1 .. a for some a in 0 .. MaxPkgA
MaxPkgA == 8

\* number of consecutive runs of the script
MaxRuns == 2

\* returncode values of the restore command: a negative value is a child
\* terminated by a signal (subprocess, POSIX), 0 success, positive a failure
ReturnCodes == {-9, 0, 1}

\* pkgB delivers any subset of these DLLs: stem 1 collides with pkgA's 1.dll
PkgBStems == {1, MaxPkgA + 1}

(***************************************************************************)
(* Paths.  A file below the temporary directory is its directory           *)
(* components, the stem of its name and its extension.                     *)
(***************************************************************************)
PathOf(dirs, stem, ext) == [dirs |-> dirs, stem |-> stem, ext |-> ext]

Dll(pkg, stem) == PathOf(<<pkg, "lib", "netstandard2.0">>, stem, "dll")

\* what a package brings besides its netstandard2.0 DLLs
OtherFiles(pkg) ==
    { PathOf(<<pkg>>, 0, "nupkg"),
      PathOf(<<pkg, "lib", "net45">>, 0, "dll"),
      PathOf(<<pkg, "lib", "netstandard2.0">>, 1, "xml"),
      PathOf(<<pkg, "lib", "netstandard2.0", "ref">>, 2, "dll"),
      PathOf(<<pkg, "tools", "netstandard2.0">>, 3, "dll") }

Feeds ==
    { {Dll("pkgA", s) : s \in 1..a} \cup {Dll("pkgB", s) : s \in B}
        \cup (IF a > 0 /\ other THEN OtherFiles("pkgA") ELSE {})
        \cup (IF B # {} /\ other THEN OtherFiles("pkgB") ELSE {})
      : a \in 0..MaxPkgA, B \in SUBSET PkgBStems, other \in BOOLEAN }

\* os.path.basename of a path
BaseName(p) == [stem |-> p.stem, ext |-> p.ext]

(***************************************************************************)
(* The output path.  kind is "absent", "dir" or "file"; entries are the    *)
(* directory's entries: a name, whether it is a directory, the run that    *)
(* put it there (0: before the first run) and the path it was moved from.  *)
(***************************************************************************)
Entry(name, isdir, r, from) ==
    [name |-> name, isdir |-> isdir, run |-> r, from |-> from]

Absent == [kind |-> "absent", entries |-> {}]

EmptyDir == [kind |-> "dir", entries |-> {}]

StaleEntries ==
    { Entry([stem |-> 1, ext |-> "dll"], FALSE, 0, PathOf(<<>>, 1, "dll")),
      Entry([stem |-> 0, ext |-> "d"], TRUE, 0, PathOf(<<>>, 0, "d")) }

InitialOutputs ==
    {Absent, [kind |-> "file", entries |-> {}]}
      \cup {[kind |-> "dir", entries |-> E] : E \in SUBSET StaleEntries}

NoTemp == [exists |-> FALSE, files |-> {}]

(***************************************************************************)
(* Init: the process has started, nothing has run yet                      *)
(***************************************************************************)
Init ==
    /\ pc = "Start"
    /\ run = 1
    /\ feed \in Feeds
    /\ temp = NoTemp
    /\ out \in InitialOutputs
    /\ nuget_return_code = 0
    /\ filepaths = <<>>
    /\ idx = 1
    /\ error = "none"
    /\ steps = <<>>
    /\ out0 = out
    /\ prevRc = 0

(***************************************************************************)
(* The pure parts of the statements                                        *)
(***************************************************************************)
\* line 21: if nuget_return_code > 0
RestoreFailed(rc) == rc > 0

\* ResetOutputDirectory without the rmtree, the mkdir tolerating a directory
ResetOutputDirectory_exist_ok(o) ==
    IF o.kind = "file"
    THEN [ok |-> FALSE, out |-> o]
    ELSE [ok |-> TRUE, out |-> [kind |-> "dir", entries |-> o.entries]]

\* ResetOutputDirectory with the mkdir in an else branch of the rmtree
ResetOutputDirectory_else(o) ==
    IF o.kind = "dir" THEN [ok |-> TRUE, out |-> Absent]
    ELSE IF o.kind = "absent" THEN [ok |-> TRUE, out |-> EmptyDir]
    ELSE [ok |-> FALSE, out |-> o]

\* lines 25-27: rmtree when the path is a directory, then os.mkdir, which
\* raises FileExistsError when the path is still there (a regular file)
ResetOutputDirectory(o) ==
    LET cleared == IF o.kind = "dir" THEN Absent ELSE o
    IN  IF cleared.kind = "absent"
        THEN [ok |-> TRUE, out |-> EmptyDir]
        ELSE [ok |-> FALSE, out |-> cleared]

\* line 29: the pattern '*/lib/netstandard2.0/*.dll'
GlobMatches(p) ==
    /\ Len(p.dirs) = 3
    /\ p.dirs[2] = "lib"
    /\ p.dirs[3] = "netstandard2.0"
    /\ p.ext = "dll"

\* The order of a directory listing is the file system's: the model lists
\* the packages in either order and the names of a directory ascending or
\* descending.
PkgOrders == {<<"pkgA", "pkgB">>, <<"pkgB", "pkgA">>}

DirOrders == {"asc", "desc"}

RECURSIVE Listing(_, _)
Listing(S, order) ==
    IF S = {} THEN <<>>
    ELSE LET p == CHOOSE x \in S : \A y \in S :
                      IF order = "asc" THEN x.stem <= y.stem
                                       ELSE x.stem >= y.stem
         IN  <<p>> \o Listing(S \ {p}, order)

\* line 29: the matches of the glob, package by package
GlobResult(files, pkgs, order) ==
    LET of(i) == {p \in files : GlobMatches(p) /\ p.dirs[1] = pkgs[i]}
    IN  Listing(of(1), order) \o Listing(of(2), order)

\* TooFew with the threshold off by one
TooFew_off_by_one(n) == n < EXPECTED_PLUGIN_COUNT - 1

\* line 30: if len(filepaths) < EXPECTED_PLUGIN_COUNT
TooFew(n) == n < EXPECTED_PLUGIN_COUNT

\* ShutilMove replacing an existing destination instead of raising
ShutilMove_overwrite(t, o, f, r) ==
    [ok |-> TRUE,
     temp |-> [t EXCEPT !.files = @ \ {f}],
     out |-> IF o.kind = "dir"
             THEN [o EXCEPT !.entries =
                      {e \in @ : e.name # BaseName(f)}
                         \cup {Entry(BaseName(f), FALSE, r, f)}]
             ELSE [kind |-> "file", entries |-> {}]]

\* ShutilMove as a copy: the source stays in the temporary directory
ShutilMove_copy(t, o, f, r) ==
    IF o.kind = "dir"
    THEN IF \E e \in o.entries : e.name = BaseName(f)
         THEN [ok |-> FALSE, temp |-> t, out |-> o]
         ELSE [ok |-> TRUE,
               temp |-> t,
               out |-> [o EXCEPT !.entries =
                            @ \cup {Entry(BaseName(f), FALSE, r, f)}]]
    ELSE [ok |-> TRUE, temp |-> t,
          out |-> [kind |-> "file", entries |-> {}]]

\* line 34: shutil.move(filepath, plugins_output_path).  Into a directory
\* the destination is <directory>/<base name> and an existing destination
\* raises shutil.Error; otherwise the file is renamed onto the path itself.
ShutilMove(t, o, f, r) ==
    IF o.kind = "dir"
    THEN IF \E e \in o.entries : e.name = BaseName(f)
         THEN [ok |-> FALSE, temp |-> t, out |-> o]
         ELSE [ok |-> TRUE,
               temp |-> [t EXCEPT !.files = @ \ {f}],
               out |-> [o EXCEPT !.entries =
                            @ \cup {Entry(BaseName(f), FALSE, r, f)}]]
    ELSE [ok |-> TRUE,
          temp |-> [t EXCEPT !.files = @ \ {f}],
          out |-> [kind |-> "file", entries |-> {}]]

(***************************************************************************)
(* The statements of the script                                            *)
(***************************************************************************)
\* line 17: temp_directory = tempfile.TemporaryDirectory()
CreateTemp ==
    /\ pc = "Start"
    /\ temp' = [exists |-> TRUE, files |-> {}]
    /\ pc' = "Restore"
    /\ steps' = Append(steps, "Start")
    /\ UNCHANGED <<run, feed, out, nuget_return_code, filepaths, idx, error,
                   out0, prevRc>>

\* line 20: subprocess.run(['nuget', 'restore', ...]).returncode
Restore ==
    /\ pc = "Restore"
    /\ \E rc \in ReturnCodes : nuget_return_code' = rc
    /\ temp' = [temp EXCEPT !.files = feed]
    /\ pc' = "ValidateExit"
    /\ steps' = Append(steps, "Restore")
    /\ UNCHANGED <<run, feed, out, filepaths, idx, error, out0, prevRc>>

\* lines 21-22: raise Exception("nuget restore did not exit successfully")
ValidateExit ==
    /\ pc = "ValidateExit"
    /\ IF RestoreFailed(nuget_return_code)
       THEN pc' = "Error" /\ error' = "RestoreFailed"
       ELSE pc' = "ResetOutput" /\ error' = error
    /\ steps' = Append(steps, "ValidateExit")
    /\ UNCHANGED <<run, feed, temp, out, nuget_return_code, filepaths, idx,
                   out0, prevRc>>

\* lines 25-27: reset of the output directory
ResetOutput ==
    /\ pc = "ResetOutput"
    /\ LET r == ResetOutputDirectory(out)
       IN  /\ out' = r.out
           /\ IF r.ok
              THEN pc' = "Glob" /\ error' = error
              ELSE pc' = "Error" /\ error' = "FileExistsError"
    /\ steps' = Append(steps, "ResetOutput")
    /\ UNCHANGED <<run, feed, temp, nuget_return_code, filepaths, idx, out0,
                   prevRc>>

\* line 29: filepaths = list(Path(temp_directory.name).glob(...))
Glob ==
    /\ pc = "Glob"
    /\ \E pkgs \in PkgOrders, order \in DirOrders :
          filepaths' = GlobResult(temp.files, pkgs, order)
    /\ pc' = "ValidateCount"
    /\ steps' = Append(steps, "Glob")
    /\ UNCHANGED <<run, feed, temp, out, nuget_return_code, idx, error, out0,
                   prevRc>>

\* ValidateCount that notes the failure and carries on to the cleanup
ValidateCount_carry_on ==
    /\ pc = "ValidateCount"
    /\ IF TooFew(Len(filepaths))
       THEN pc' = "Cleanup" /\ error' = "InsufficientArtifacts"
       ELSE /\ pc' = IF Len(filepaths) = 0 THEN "Cleanup" ELSE "Move"
            /\ error' = error
    /\ steps' = Append(steps, "ValidateCount")
    /\ UNCHANGED <<run, feed, temp, out, nuget_return_code, filepaths, idx,
                   out0, prevRc>>

\* lines 30-31: raise Exception("failed to download the necessary ...")
ValidateCount ==
    /\ pc = "ValidateCount"
    /\ IF TooFew(Len(filepaths))
       THEN pc' = "Error" /\ error' = "InsufficientArtifacts"
       ELSE /\ pc' = IF Len(filepaths) = 0 THEN "Cleanup" ELSE "Move"
            /\ error' = error
    /\ steps' = Append(steps, "ValidateCount")
    /\ UNCHANGED <<run, feed, temp, out, nuget_return_code, filepaths, idx,
                   out0, prevRc>>

\* lines 33-34: one iteration of the for loop
Move ==
    /\ pc = "Move"
    /\ LET m == ShutilMove(temp, out, filepaths[idx], run)
       IN  /\ temp' = m.temp
           /\ out' = m.out
           /\ IF m.ok
              THEN /\ idx' = idx + 1
                   /\ pc' = IF idx = Len(filepaths) THEN "Cleanup" ELSE "Move"
                   /\ error' = error
              ELSE /\ idx' = idx
                   /\ pc' = "Error"
                   /\ error' = "ShutilError"
    /\ steps' = Append(steps, "Move")
    /\ UNCHANGED <<run, feed, nuget_return_code, filepaths, out0, prevRc>>

\* Cleanup that leaves the temporary directory in place
Cleanup_leak ==
    /\ pc = "Cleanup"
    /\ temp' = temp
    /\ pc' = "End"
    /\ steps' = Append(steps, "Cleanup")
    /\ UNCHANGED <<run, feed, out, nuget_return_code, filepaths, idx, error,
                   out0, prevRc>>

\* line 36: temp_directory.cleanup()
Cleanup ==
    /\ pc = "Cleanup"
    /\ temp' = NoTemp
    /\ pc' = "End"
    /\ steps' = Append(steps, "Cleanup")
    /\ UNCHANGED <<run, feed, out, nuget_return_code, filepaths, idx, error,
                   out0, prevRc>>

\* The script is run again: a new process (lines 13-17 run afresh) on the
\* output path the finished run left behind.
Rerun ==
    /\ pc \in {"End", "Error"}
    /\ run < MaxRuns
    /\ run' = run + 1
    /\ pc' = "Start"
    /\ temp' = NoTemp
    /\ nuget_return_code' = 0
    /\ filepaths' = <<>>
    /\ idx' = 1
    /\ error' = "none"
    /\ steps' = <<>>
    /\ out0' = out
    /\ prevRc' = nuget_return_code
    /\ UNCHANGED <<feed, out>>

Next ==
    \/ CreateTemp
    \/ Restore
    \/ ValidateExit
    \/ ResetOutput
    \/ Glob
    \/ ValidateCount
    \/ Move
    \/ Cleanup
    \/ Rerun

Spec == Init /\ [][Next]_vars

(***************************************************************************)
(* Vocabulary of the properties                                            *)
(***************************************************************************)
\* the delivered files at <package>/lib/netstandard2.0/<name>.dll
ExpectedArtifacts ==
    {p \in feed : /\ Len(p.dirs) = 3
                  /\ p.dirs[2] = "lib" /\ p.dirs[3] = "netstandard2.0"
                  /\ p.ext = "dll"}

\* two delivered artifacts share a base name
DuplicateBaseNames ==
    \E p, q \in ExpectedArtifacts : p # q /\ p.stem = q.stem /\ p.ext = q.ext

\* the statement s has been executed in this run
Done(s) == \E i \in 1..Len(steps) : steps[i] = s

LastStep == IF steps = <<>> THEN "none" ELSE steps[Len(steps)]

\* what an output path holds, whichever run put it there
Contents(o) ==
    [kind |-> o.kind,
     entries |-> {[name |-> e.name, isdir |-> e.isdir, from |-> e.from]
                    : e \in o.entries}]

StepRank(s) ==
    CASE s = "Start" -> 0
      [] s = "Restore" -> 1
      [] s = "ValidateExit" -> 2
      [] s = "ResetOutput" -> 3
      [] s = "Glob" -> 4
      [] s = "ValidateCount" -> 5
      [] s = "Move" -> 6
      [] s = "Cleanup" -> 7

(***************************************************************************)
(* C1: a run that reaches the end of the script leaves 'Plugins' as a      *)
(* directory whose entries are exactly the base names of the files at      *)
(* */lib/netstandard2.0/*.dll: one flat file of this run per matched       *)
(* file, nothing else, whatever the path held before.                      *)
(***************************************************************************)
C1_SuccessStagesExactlyTheMatches ==
    pc = "End" =>
        /\ out.kind = "dir"
        /\ {e.name : e \in out.entries}
              = {[stem |-> p.stem, ext |-> p.ext] : p \in ExpectedArtifacts}
        /\ Cardinality(out.entries) = Cardinality(ExpectedArtifacts)
        /\ \A e \in out.entries :
              ~e.isdir /\ e.run = run /\ e.from \in ExpectedArtifacts

C1_Witness ==
    /\ pc = "End"
    /\ out0.kind = "dir" /\ out0.entries = StaleEntries
    /\ Cardinality(out.entries) = MaxPkgA + 1
    /\ feed # ExpectedArtifacts

(***************************************************************************)
(* C2: whenever the restore command's exit code is not zero the run        *)
(* aborts at the exit check, before the output path is touched: no reset,  *)
(* glob or move runs and the output path is as it was before the run.      *)
(***************************************************************************)
C2_NonZeroExitAborts ==
    (Done("ValidateExit") /\ nuget_return_code # 0) =>
        /\ pc = "Error" /\ error = "RestoreFailed"
        /\ out = out0
        /\ steps = <<"Start", "Restore", "ValidateExit">>

(***************************************************************************)
(* C3: with fewer than EXPECTED_PLUGIN_COUNT matches and the exit check    *)
(* passed, the run aborts at the count check: the output path has been     *)
(* reset to an empty directory, nothing has been moved and every matched   *)
(* file is still in the temporary directory.                               *)
(***************************************************************************)
C3_TooFewAbortsAfterReset ==
    /\ (Done("ValidateCount")
          /\ Cardinality(ExpectedArtifacts) < EXPECTED_PLUGIN_COUNT) =>
            /\ pc = "Error" /\ error = "InsufficientArtifacts"
            /\ out = EmptyDir
            /\ ~Done("Move")
            /\ temp.exists /\ ExpectedArtifacts \subseteq temp.files
    /\ error = "InsufficientArtifacts" =>
            Cardinality(ExpectedArtifacts) < EXPECTED_PLUGIN_COUNT

C3_Witness ==
    /\ pc = "Error" /\ error = "InsufficientArtifacts"
    /\ Cardinality(ExpectedArtifacts) = EXPECTED_PLUGIN_COUNT - 1
    /\ \E e \in out0.entries : ~e.isdir
    /\ nuget_return_code = 0

(***************************************************************************)
(* C4 as stated: the restore tool delivers the same files in both runs     *)
(* (feed does not change), and when the second run has ended the output    *)
(* path holds what it held after the first.                                *)
(***************************************************************************)
C4_SecondRunSameContents ==
    (run >= 2 /\ pc \in {"End", "Error"}) => Contents(out) = Contents(out0)

(***************************************************************************)
(* C4 amended: the same, provided the exit check has the same outcome in   *)
(* both runs and no two matched files share a base name.                   *)
(***************************************************************************)
C4_SecondRunSameContentsAmended ==
    (/\ run >= 2 /\ pc \in {"End", "Error"}
     /\ (prevRc > 0) = (nuget_return_code > 0)
     /\ ~DuplicateBaseNames)
        => Contents(out) = Contents(out0)

C4_Witness ==
    /\ run = 2 /\ pc = "End"
    /\ prevRc <= 0
    /\ \E e \in out0.entries : e.run = 1
    /\ \A e \in out.entries : e.run = 2

(***************************************************************************)
(* C5: when the first file is about to be moved the output path is an      *)
(* existing, empty directory; every move goes into an existing directory   *)
(* and no entry older than this run is in it from the move phase on.       *)
(***************************************************************************)
C5_MovesStartInEmptyDirectory ==
    /\ (pc = "Move" /\ idx = 1) => out = EmptyDir
    /\ pc = "Move" => out.kind = "dir"
    /\ (pc \in {"Move", "Cleanup", "End"} \/ Done("Move")) =>
            \A e \in out.entries : e.run = run

C5_Witness ==
    /\ pc = "Move" /\ idx = 1
    /\ run = 2
    /\ \E e \in out0.entries : e.run = 1

(***************************************************************************)
(* C6: the statements run in the order Restore, ValidateExit, ResetOutput, *)
(* Glob, ValidateCount, Move, Cleanup, each after all those ahead of it;   *)
(* a failed exit check or count check puts the run in Error at once; and   *)
(* from Error no statement of the run executes any more.                   *)
(***************************************************************************)
C6_Order ==
    /\ \A i \in 1..Len(steps) :
          IF i = 1 THEN steps[i] = "Start"
          ELSE \/ StepRank(steps[i]) = StepRank(steps[i-1]) + 1
               \/ steps[i] = "Move" /\ steps[i-1] = "Move"
    /\ (LastStep = "ValidateExit" /\ nuget_return_code > 0) =>
            pc = "Error" /\ error = "RestoreFailed"
    /\ (LastStep = "ValidateCount"
          /\ Len(filepaths) < EXPECTED_PLUGIN_COUNT) =>
            pc = "Error" /\ error = "InsufficientArtifacts"
    /\ error \in {"RestoreFailed", "InsufficientArtifacts"} => pc = "Error"
    /\ (pc = "Error" /\ error = "RestoreFailed") => LastStep = "ValidateExit"
    /\ (pc = "Error" /\ error = "InsufficientArtifacts") =>
            LastStep = "ValidateCount"

C6_ErrorIsTerminal ==
    pc = "Error" => /\ run' = run + 1
                    /\ pc' = "Start"
                    /\ out' = out

C6_LinearPipeline == []C6_Order /\ [][C6_ErrorIsTerminal]_vars

C6_Witness ==
    /\ run = 2 /\ prevRc > 0
    /\ pc = "End"
    /\ Len(steps) = 7 + Len(filepaths)

(***************************************************************************)
(* C7: the temporary directory is created once, by the first statement,    *)
(* and is gone when the run reaches the end; a run that ends in an abort   *)
(* has not executed the cleanup and its temporary directory is still       *)
(* there when the script's statements stop.                                *)
(***************************************************************************)
C7_TempDirectoryLifetime ==
    /\ pc = "Start" => ~temp.exists
    /\ pc \notin {"Start", "End"} => temp.exists
    /\ pc = "End" => ~temp.exists /\ LastStep = "Cleanup"
    /\ pc = "Error" => temp.exists /\ ~Done("Cleanup")
    /\ Cardinality({i \in 1..Len(steps) : steps[i] = "Start"}) <= 1

C7_Witness ==
    /\ pc = "Error" /\ error = "InsufficientArtifacts"
    /\ temp.exists /\ temp.files # {}
    /\ run = 2

(***************************************************************************)
(* C8: from an output path that is absent, an empty directory or a         *)
(* directory with files or nested directories, the reset raises nothing    *)
(* and leaves an existing empty directory, and a second reset of the       *)
(* result gives the same.                                                  *)
(***************************************************************************)
C8_ResetIsIdempotent ==
    (LastStep = "ResetOutput" /\ out0.kind \in {"absent", "dir"}) =>
        /\ pc = "Glob" /\ error = "none"
        /\ out = EmptyDir
        /\ ResetOutputDirectory(out) = [ok |-> TRUE, out |-> out]

C8_Witness ==
    /\ LastStep = "ResetOutput" /\ pc = "Glob"
    /\ \E e \in out0.entries : e.isdir
    /\ \E e \in out0.entries : ~e.isdir

(***************************************************************************)
(* C9: when matched files share a base name the run never reaches the      *)
(* cleanup or the end and no entry is overwritten: the move of the later   *)
(* file raises because its destination exists, the files moved before it   *)
(* stay in the output directory and the file itself stays in the           *)
(* temporary directory.                                                    *)
(***************************************************************************)
C9_DuplicateBaseNameAborts ==
    /\ DuplicateBaseNames => pc \notin {"Cleanup", "End"}
    /\ \A e1, e2 \in out.entries : e1.name = e2.name => e1 = e2
    /\ (DuplicateBaseNames /\ pc = "Error" /\ Done("Move")) =>
            error = "ShutilError"
    /\ error = "ShutilError" =>
        /\ pc = "Error" /\ DuplicateBaseNames
        /\ \E j \in 1..(idx - 1) :
              /\ filepaths[j].stem = filepaths[idx].stem
              /\ filepaths[j].ext = filepaths[idx].ext
        /\ filepaths[idx] \in temp.files
        /\ {e.from : e \in out.entries} = {filepaths[j] : j \in 1..(idx - 1)}
        /\ ~Done("Cleanup") /\ temp.exists

C9_Witness ==
    /\ error = "ShutilError"
    /\ idx > 2
    /\ Len(filepaths) > EXPECTED_PLUGIN_COUNT

====
